---- MODULE Spec2Model ----
(***************************************************************************)
(* Client-side chat session of Chat-Service: the message log and the      *)
(* presence list kept by the Chat component (chat.js) and the credential  *)
(* renewal of tokenUtils.refreshToken.                                     *)
(*                                                                         *)
(* The Chat component keeps two React state arrays, messages and           *)
(* onlineUsers, that are only written by the socket.io event handlers     *)
(* registered in fetchUserInfo.  Every handler is one functional          *)
(* setState update, modelled as one atomic action.                         *)
(*                                                                         *)
(* refreshToken is an async function: it runs to its first await, and each *)
(* await (fetch, response.json) is a point where other callers run.  A     *)
(* caller is modelled as a process with a program counter.                 *)
(*                                                                         *)
(* The session of a room is the effect of Chat keyed on chatRoomId: its    *)
(* body starts fetchUserInfo and the renewal timer, its cleanup            *)
(* disconnects socketRef.current and clears the timer.  Every run of the   *)
(* effect is a process of its own, since fetchUserInfo keeps running after *)
(* the cleanup of its run.                                                 *)
(***************************************************************************)
EXTENDS Naturals, Sequences, FiniteSets

(***************************************************************************)
(* Bounds of the model.  The JavaScript arrays are unbounded; the guards   *)
(* of the handlers stop delivery when an array would outgrow its bound.   *)
(***************************************************************************)
MaxLog == 3
MaxOnline == 4
\* The bound of the array that is not the subject of a specification.
SideLog == 1
SideOnline == 1
\* The clock stops at MaxTime; the server issues at most MaxSerial tokens.
MaxTime == 3
MaxSerial == 3
\* Lifetime the server gives a token (seconds of the model's clock).
Ttl == 1
\* 'get_more_messages' requests that may await their answer at once.
MaxRequests == 2
\* The bound of the log when pagination is the subject.
PageLog == 2

\* A 'join' notice carries no id: `message.id` is undefined on it.
NoId == 0

\* Message ids the server hands out, and the identities of a room.
Ids == {1, 2, 3}
Users == {"a", "b", "c", "d"}

\* The small alphabets used when the other half of the state is the subject.
OneId == {1}
OneUser == {"a"}
\* Message ids when pagination is the subject.
PageIds == {1, 2}

\* The call sites of refreshToken that may overlap: ChatRooms' effect calls
\* fetchChatRooms() and fetchOnlineUsers() back to back.
Callers == {"fetchChatRooms", "fetchOnlineUsers"}

\* The call sites of refreshToken in the Chat component.
SessionCallers == {"fetchUserInfo", "refreshInterval"}

AllCallers == Callers \cup SessionCallers

\* Runs of the Chat effect that the model follows.
MaxRuns == 2

Runs == 1..MaxRuns

\* useRef(null): socketRef.current before a channel is created
NoRun == 0

\* The rooms of the model, and the message ids the server holds for each.
Rooms == {"A", "B"}

RoomIds(room) == IF room = "A" THEN {1} ELSE {2}

\* Characters of a draft: a blank and a letter.
Blank == " "

Drafts == {<<>>, <<Blank>>, <<"h">>, <<Blank, "h">>}

\* useState(null) of file, and the MIME types of an attached file, split at
\* the slash.
NoFile == <<>>

FileTypes == {<<"image", "png">>, <<"text", "plain">>}

\* messageData before a message was composed.
NoData == [content |-> <<>>, message_type |-> "text", file |-> NoFile]

VARIABLES
    messages,      \* useState([]) of chat.js: the message log, oldest first
    onlineUsers,   \* useState([]) of chat.js: the presence list
    origin,        \* history: per log entry, the event that inserted it
    lastEvent,     \* history: the inbound event applied last
    prevMessages,  \* history: messages before lastEvent was applied
    prevOnline,    \* history: onlineUsers before lastEvent was applied
    scenario,      \* history: progress through replace([a,b,c]); join d; leave b
    seeds,         \* history: 'initial_messages' events applied so far, up to 2
    requests,      \* cursors of the 'get_more_messages' emitted and not answered
    pageNote,      \* history: what the last scroll emitted or the last page answered
    token,         \* localStorage item 'token'
    now,           \* Date.now() / 1000
    nextSerial,    \* the server's next token
    pc,            \* per caller: where its refreshToken call stands
    held,          \* per caller: `const token` of its call, sent as Bearer
    response,      \* per caller: the response its fetch resolved with
    result,        \* per caller: what its last call returned
    posts,         \* history: per token serial, POST /refresh-token calls sent
    lastStep,      \* history: the credential step taken last
    prevToken,     \* history: the stored token before lastStep
    attempt,       \* history: per caller, serial its last renewal was sent for
    cleared401,    \* history: a 401 cleared the store and no login followed
    view,          \* the route App renders: "login", "blank", "rooms" or "chat"
    chatRoomId,    \* useParams() of Chat
    isLoggedIn,    \* useState of App
    userInfo,      \* useState(null) of Chat: TRUE once setUserInfo ran
    status,        \* per run of the effect: "unused", "live", "torn" (cleanup
                   \* ran), "gone" (the component was unmounted)
    entry,         \* per run: where its fetchUserInfo stands
    entryRoom,     \* per run: chatRoomId of its closure
    denied,        \* history: per run, refreshToken gave its fetchUserInfo no token
    timer,         \* per run: its refreshInterval is set
    timerRun,      \* the run whose timer callback awaits refreshToken
    sock,          \* per run: the channel its fetchUserInfo created
    auth,          \* per run: auth.token given to io()
    socketRef,     \* socketRef.current: the run whose channel it holds
    message,       \* useState('') of Chat: the draft
    file,          \* useState(null) of Chat: the attached file
    sendPc,        \* "idle", or "reading" while sendMessage awaits arrayBuffer()
    sendData,      \* messageData of the suspended sendMessage
    error,         \* useState('') of ChatRooms: TRUE once setError ran
    listing,       \* per listing call of ChatRooms: where it stands
    note,          \* history: what the last session step signalled or emitted
    via            \* history: the run whose channel delivered the last event

chatVars == <<messages, onlineUsers, origin, lastEvent, prevMessages, prevOnline,
              scenario, seeds, requests, pageNote>>

credVars == <<token, now, nextSerial, pc, held, response, result, posts,
              lastStep, prevToken, attempt, cleared401>>

sessVars == <<view, chatRoomId, isLoggedIn, userInfo, status, entry, entryRoom, denied,
              timer, timerRun, sock, auth, socketRef, message, file, sendPc,
              sendData, error, listing, note>>

vars == <<chatVars, credVars, sessVars, via>>

(***************************************************************************)
(* Pure helpers                                                            *)
(***************************************************************************)
Range(s) == {s[i] : i \in DOMAIN s}

MapSeq(s, F(_)) == [i \in DOMAIN s |-> F(s[i])]

\* Strictly increasing sequences over a set of ids: a snapshot or a page as
\* the server sends it, oldest first, every message once.
IncSeqs(I) ==
    {s \in UNION {[1..k -> I] : k \in 0..Cardinality(I)} :
        \A i \in 1..(Len(s) - 1) : s[i] < s[i + 1]}

\* An 'online_users' payload: identities of the room, each once, in the
\* server's order.
UserOrder == <<"a", "b", "c", "d">>

Snapshots(U) == {SelectSeq(UserOrder, LAMBDA u : u \in S) : S \in SUBSET U}

\* {...msg, type: 'chat'}
TagChat(msg) == [type |-> "chat", id |-> msg.id]

\* {...data, type: 'join'}: data is {username, sid}, it has no id
JoinNotice(data) == [type |-> "join", id |-> NoId]

(***************************************************************************)
(* The functional setState updaters of the handlers                        *)
(***************************************************************************)
\* Faulty variants of the updaters below, used to test that the properties
\* of this module depend on them.
AppendTailAtHead(prev, x) == <<x>> \o prev

ReplaceAllMerging(prev, xs) == prev \o xs

ReplaceAllKeepingPresence(prev, xs) == IF prev = <<>> THEN xs ELSE prev

FilterOutInverted(prev, username) == SelectSeq(prev, LAMBDA user : user = username)

\* (prev) => [...prev, x]
AppendTail(prev, x) == Append(prev, x)

\* (prev) => [...older, ...prev]
PrependHead(prev, older) == older \o prev

\* setMessages(initialMessages.map(...)), setOnlineUsers(users)
ReplaceAll(prev, xs) == xs

\* (prevUsers) => prevUsers.filter(user => user !== data.username)
FilterOut(prev, username) == SelectSeq(prev, LAMBDA user : user # username)

(***************************************************************************)
(* History bookkeeping                                                     *)
(***************************************************************************)
\* Arrival ranks of the log's entries renumbered 1..k in arrival order.
Normalize(o) ==
    [i \in DOMAIN o |->
        [o[i] EXCEPT !.ev = Cardinality({o[j].ev : j \in DOMAIN o} \cap (0..o[i].ev))]]

NewEv == MaxLog + 2

\* The tags of the entries one event inserts: its source, its arrival rank,
\* the entry's place in the event's payload and the id it carried.
OriginTags(src, entries) ==
    [i \in DOMAIN entries |->
        [src |-> src, ev |-> NewEv, idx |-> i, id |-> entries[i].id]]

\* No request emitted, no request answered.
NoNote == [flag |-> FALSE, cursor |-> NoId]

ScenarioNext(kind, arg) ==
    IF kind = "online_users" THEN (IF arg = <<"a", "b", "c">> THEN 1 ELSE 0)
    ELSE IF kind = "join" THEN (IF scenario = 1 /\ arg = "d" THEN 2 ELSE 0)
    ELSE IF kind = "leave" THEN (IF scenario = 2 /\ arg = "b" THEN 3 ELSE 0)
    ELSE scenario

Record(kind, arg) ==
    /\ lastEvent' = [kind |-> kind, arg |-> arg]
    /\ prevMessages' = messages
    /\ prevOnline' = onlineUsers
    /\ scenario' = ScenarioNext(kind, arg)
    /\ seeds' = IF kind = "initial_messages" /\ seeds < 2 THEN seeds + 1 ELSE seeds
    /\ IF kind \in {"more_messages", "scroll"}
       THEN TRUE
       ELSE requests' = requests /\ pageNote' = NoNote
    /\ UNCHANGED <<credVars, sessVars>>

(***************************************************************************)
(* Credentials (tokenUtils.refreshToken, Login.handleSubmit,               *)
(* App.handleLogout)                                                       *)
(***************************************************************************)
\* localStorage.getItem('token') === null
NoToken == [kind |-> "none", serial |-> 0, exp |-> 0]

\* A JWT the server issued, with its `exp` claim.
Jwt(serial, exp) == [kind |-> "jwt", serial |-> serial, exp |-> exp]

\* The string "undefined", stored by setItem('token', undefined); jwtDecode
\* throws on it.
UndefinedString == [kind |-> "undefined", serial |-> 0, exp |-> 0]

\* What a call returned: null, a token, undefined, or a rejected promise.
Pending == [kind |-> "pending", serial |-> 0, exp |-> 0]
Threw == [kind |-> "threw", serial |-> 0, exp |-> 0]
UndefinedValue == [kind |-> "undefinedValue", serial |-> 0, exp |-> 0]

NoResponse == [kind |-> "none", body |-> NoToken]

\* Faulty variants of the definitions below.
HasTokenAlways(tok) == TRUE

FailStoreKeeps == token

JsonReturnNull(resp) == NoToken

\* if (!token) return null
HasToken(tok) == tok.kind # "none"

\* decodedToken.exp < currentTime
Expired(tok) == tok.exp < now

\* localStorage.removeItem('token') of the else branch and of the catch block
FailStore == NoToken

\* localStorage.setItem('token', data.access_token), or removeItem in the
\* catch block when response.json() rejects
JsonStore(resp) ==
    IF resp.kind = "token" THEN resp.body
    ELSE IF resp.kind = "noAccessToken" THEN UndefinedString
    ELSE NoToken

\* return data.access_token, or return null in the catch block
JsonReturn(resp) ==
    IF resp.kind = "token" THEN resp.body
    ELSE IF resp.kind = "noAccessToken" THEN UndefinedValue
    ELSE NoToken

\* History of a credential step: what ran, for whom, on which response, and
\* whether it sent a POST /refresh-token.
Step(op, c, info) ==
    /\ lastStep' = [op |-> op, c |-> c, info |-> info, posted |-> posts' # posts]
    /\ prevToken' = token

InitCred ==
    /\ token = NoToken
    /\ now = 0
    /\ nextSerial = 1
    /\ pc = [c \in AllCallers |-> "idle"]
    /\ held = [c \in AllCallers |-> NoToken]
    /\ response = [c \in AllCallers |-> NoResponse]
    /\ result = [c \in AllCallers |-> Pending]
    /\ posts = [s \in 1..(MaxSerial + 1) |-> 0]
    /\ lastStep = [op |-> "none", c |-> "none", info |-> "none", posted |-> FALSE]
    /\ prevToken = NoToken
    /\ attempt = [c \in AllCallers |-> 0]
    /\ cleared401 = FALSE

\* refreshToken up to its first await: getItem, jwtDecode, the expiry test
\* and the start of fetch(.../refresh-token).
CallRefreshToken(c) ==
    /\ pc[c] = "idle"
    /\ IF ~HasToken(token)
       THEN /\ result' = [result EXCEPT ![c] = NoToken]
            /\ attempt' = [attempt EXCEPT ![c] = 0]
            /\ UNCHANGED <<pc, held, posts>>
       ELSE IF token.kind # "jwt"
       THEN /\ result' = [result EXCEPT ![c] = Threw]
            /\ attempt' = [attempt EXCEPT ![c] = 0]
            /\ UNCHANGED <<pc, held, posts>>
       ELSE IF Expired(token)
       THEN /\ pc' = [pc EXCEPT ![c] = "fetch"]
            /\ held' = [held EXCEPT ![c] = token]
            /\ posts' = [posts EXCEPT ![token.serial] = @ + 1]
            /\ result' = [result EXCEPT ![c] = Pending]
            /\ attempt' = [attempt EXCEPT ![c] = token.serial]
       ELSE /\ result' = [result EXCEPT ![c] = token]
            /\ attempt' = [attempt EXCEPT ![c] = 0]
            /\ UNCHANGED <<pc, held, posts>>
    /\ UNCHANGED <<token, now, nextSerial, response, cleared401, chatVars>>
    /\ Step("call", c, "none")

\* await fetch(...) resolves with a 2xx response.
FetchOk(c, bodyKind) ==
    /\ pc[c] = "fetch"
    /\ bodyKind \in {"token", "noAccessToken", "notJson"}
    /\ bodyKind = "token" => nextSerial <= MaxSerial
    /\ pc' = [pc EXCEPT ![c] = "json"]
    /\ response' = [response EXCEPT ![c] =
            [kind |-> bodyKind,
             body |-> IF bodyKind = "token" THEN Jwt(nextSerial, now + Ttl) ELSE NoToken]]
    /\ nextSerial' = IF bodyKind = "token" THEN nextSerial + 1 ELSE nextSerial
    /\ UNCHANGED <<token, now, held, result, posts, attempt, cleared401, chatVars>>
    /\ Step("fetchOk", c, bodyKind)

\* await fetch(...) resolves with a non-2xx response (why = "status"), or
\* rejects (why = "network"): both paths removeItem('token') and return null.
FetchFailed(c, why) ==
    /\ pc[c] = "fetch"
    /\ why \in {"status", "network"}
    /\ token' = FailStore
    /\ pc' = [pc EXCEPT ![c] = "idle"]
    /\ result' = [result EXCEPT ![c] = NoToken]
    /\ held' = [held EXCEPT ![c] = NoToken]
    /\ cleared401' = (cleared401 \/ why = "status")
    /\ UNCHANGED <<now, nextSerial, response, posts, attempt, chatVars>>
    /\ Step("fetchFailed", c, why)

\* await response.json() settles: setItem and return data.access_token, or
\* the catch block when the body does not parse.
JsonDone(c) ==
    /\ pc[c] = "json"
    /\ token' = JsonStore(response[c])
    /\ result' = [result EXCEPT ![c] = JsonReturn(response[c])]
    /\ pc' = [pc EXCEPT ![c] = "idle"]
    /\ held' = [held EXCEPT ![c] = NoToken]
    /\ response' = [response EXCEPT ![c] = NoResponse]
    /\ UNCHANGED <<now, nextSerial, posts, attempt, cleared401, chatVars>>
    /\ Step("jsonDone", c, response[c].kind)

\* Login.handleSubmit on a 2xx answer of POST /token.
Login ==
    /\ nextSerial <= MaxSerial
    /\ token' = Jwt(nextSerial, now + Ttl)
    /\ nextSerial' = nextSerial + 1
    /\ cleared401' = FALSE
    /\ UNCHANGED <<now, pc, held, response, result, posts, attempt, chatVars>>
    /\ Step("login", "none", "none")

\* App.handleLogout
Logout ==
    /\ token' = NoToken
    /\ UNCHANGED <<now, nextSerial, pc, held, response, result, posts, attempt,
                   cleared401, chatVars>>
    /\ Step("logout", "none", "none")

\* Wall-clock time passes.
Tick ==
    /\ now < MaxTime
    /\ now' = now + 1
    /\ UNCHANGED <<token, nextSerial, pc, held, response, result, posts, attempt,
                   cleared401, chatVars>>
    /\ Step("tick", "none", "none")

\* The credential steps leave the session alone.
Apart == UNCHANGED <<sessVars, via>>

NextCred ==
    \/ \E c \in Callers : CallRefreshToken(c) /\ Apart
    \/ \E c \in Callers : \E k \in {"token", "noAccessToken", "notJson"} :
          FetchOk(c, k) /\ Apart
    \/ \E c \in Callers : \E why \in {"status", "network"} :
          FetchFailed(c, why) /\ Apart
    \/ \E c \in Callers : JsonDone(c) /\ Apart
    \/ Login /\ Apart
    \/ Logout /\ Apart
    \/ Tick /\ Apart

(***************************************************************************)
(* Inbound event handlers                                                  *)
(***************************************************************************)
\* Nothing signalled, nothing emitted.
Silent ==
    [kind |-> "none", run |-> NoRun, to |-> "none", open |-> FALSE, tok |-> NoToken,
     at |-> 0, stored |-> NoToken, draft |-> <<>>, file |-> NoFile, sent |-> <<>>]

InitSession ==
    /\ view = "login"
    /\ chatRoomId = "none"
    /\ isLoggedIn = FALSE
    /\ userInfo = FALSE
    /\ status = [r \in Runs |-> "unused"]
    /\ entry = [r \in Runs |-> "unused"]
    /\ entryRoom = [r \in Runs |-> "none"]
    /\ denied = [r \in Runs |-> FALSE]
    /\ timer = [r \in Runs |-> FALSE]
    /\ timerRun = NoRun
    /\ sock = [r \in Runs |-> "none"]
    /\ auth = [r \in Runs |-> NoToken]
    /\ socketRef = NoRun
    /\ message = <<>>
    /\ file = NoFile
    /\ sendPc = "idle"
    /\ sendData = NoData
    /\ error = FALSE
    /\ listing = [c \in Callers |-> "idle"]
    /\ note = Silent
    /\ via = NoRun

Init ==
    /\ InitCred
    /\ InitSession
    /\ messages = <<>>
    /\ onlineUsers = <<>>
    /\ origin = <<>>
    /\ lastEvent = [kind |-> "none", arg |-> NoId]
    /\ prevMessages = <<>>
    /\ prevOnline = <<>>
    /\ scenario = 0
    /\ seeds = 0
    /\ requests = <<>>
    /\ pageNote = NoNote

\* socketRef.current.on('join', ...)
OnJoin(data, lc, oc) ==
    /\ Len(messages) < lc
    /\ Len(onlineUsers) < oc
    /\ messages' = AppendTail(messages, JoinNotice(data))
    /\ onlineUsers' = AppendTail(onlineUsers, data.username)
    /\ origin' = Normalize(AppendTail(origin, OriginTags("live", <<JoinNotice(data)>>)[1]))
    /\ Record("join", data.username)

\* socketRef.current.on('leave', ...)
OnLeave(data) ==
    /\ onlineUsers' = FilterOut(onlineUsers, data.username)
    /\ UNCHANGED <<messages, origin>>
    /\ Record("leave", data.username)

\* socketRef.current.on('chat', ...)
OnChat(data, lc) ==
    /\ Len(messages) < lc
    /\ messages' = AppendTail(messages, TagChat(data.message))
    /\ origin' = Normalize(AppendTail(origin, OriginTags("live", <<TagChat(data.message)>>)[1]))
    /\ UNCHANGED onlineUsers
    /\ Record("chat", data.message.id)

\* socketRef.current.on('initial_messages', ...)
OnInitialMessages(initialMessages, lc) ==
    /\ Len(initialMessages) <= lc
    /\ messages' = ReplaceAll(messages, MapSeq(initialMessages, TagChat))
    /\ origin' = Normalize(ReplaceAll(origin, OriginTags("seed", MapSeq(initialMessages, TagChat))))
    /\ UNCHANGED onlineUsers
    /\ Record("initial_messages", MapSeq(initialMessages, LAMBDA m : m.id))

\* socketRef.current.on('more_messages', ...)
OnMoreMessages(olderMessages, lc) ==
    /\ Len(messages) + Len(olderMessages) <= lc
    /\ messages' = PrependHead(messages, MapSeq(olderMessages, TagChat))
    /\ origin' = Normalize(PrependHead(origin, OriginTags("page", MapSeq(olderMessages, TagChat))))
    /\ UNCHANGED onlineUsers
    /\ Record("more_messages", MapSeq(olderMessages, LAMBDA m : m.id))

\* socketRef.current.on('online_users', ...)
OnOnlineUsers(users, oc) ==
    /\ Len(users) <= oc
    /\ onlineUsers' = ReplaceAll(onlineUsers, users)
    /\ UNCHANGED <<messages, origin>>
    /\ Record("online_users", users)

\* A 'more_messages' event either answers the oldest request awaiting an
\* answer, or is a page nobody is waiting for (a redelivery by the
\* transport); the handler cannot tell the two apart.
Answer(solicited) ==
    /\ solicited => requests # <<>>
    /\ requests' = IF solicited THEN Tail(requests) ELSE requests
    /\ pageNote' = IF solicited THEN [flag |-> TRUE, cursor |-> Head(requests)]
                   ELSE NoNote

\* Faulty variant of ShouldRequest.
ShouldRequestAnyLog(scrollTop, log) == scrollTop = 0

\* chatContainerRef.current.scrollTop === 0 && messages.length > 0
ShouldRequest(scrollTop, log) == scrollTop = 0 /\ Len(log) > 0

\* messages[0].id: undefined on a join notice (and never read on an empty
\* log, which ShouldRequest excludes)
OldestId(log) == IF Len(log) = 0 THEN NoId ELSE log[1].id

\* handleScroll, the onScroll handler of the message container
HandleScroll(scrollTop) ==
    /\ IF ShouldRequest(scrollTop, messages)
       THEN /\ Len(requests) < MaxRequests
            /\ requests' = Append(requests, OldestId(messages))
            /\ pageNote' = [flag |-> TRUE, cursor |-> OldestId(messages)]
       ELSE /\ requests' = requests
            /\ pageNote' = NoNote
    /\ UNCHANGED <<messages, onlineUsers, origin, via>>
    /\ Record("scroll", scrollTop)

Msg(i) == [id |-> i]

\* `data.message` of a 'chat' event sent without a message: undefined, which
\* the spread {...data.message} reads as an object without fields.
NoMessage == [id |-> NoId]

\* `data.username` of a 'join' or 'leave' event sent without a username: the
\* value undefined, which is no identity of a room.
NoUsername == "undefined"

\* The events the channel may deliver, over identities U and message ids I,
\* with the log held to lc entries and the presence list to oc.
Deliver(U, I, lc, oc) ==
    \/ \E u \in U : OnJoin([username |-> u], lc, oc) /\ UNCHANGED via
    \/ \E u \in U : OnLeave([username |-> u]) /\ UNCHANGED via
    \/ \E i \in I : OnChat([message |-> Msg(i)], lc) /\ UNCHANGED via
    \/ \E s \in IncSeqs(I) : OnInitialMessages(MapSeq(s, Msg), lc) /\ UNCHANGED via
    \/ \E s \in IncSeqs(I) : \E solicited \in BOOLEAN :
          OnMoreMessages(MapSeq(s, Msg), lc) /\ Answer(solicited) /\ UNCHANGED via
    \/ \E s \in Snapshots(U) : OnOnlineUsers(s, oc) /\ UNCHANGED via

\* The message log under every interleaving of inbound events.
Next == Deliver(OneUser, Ids, MaxLog, SideOnline)

Spec == Init /\ [][Next]_vars

\* The presence list under every interleaving of the events that write it,
\* with the seeds that make room in the log for the notices of the joins.
NextPresence ==
    \/ \E u \in Users : OnJoin([username |-> u], SideLog, MaxOnline) /\ UNCHANGED via
    \/ \E u \in Users : OnLeave([username |-> u]) /\ UNCHANGED via
    \/ \E s \in IncSeqs(OneId) : OnInitialMessages(MapSeq(s, Msg), SideLog) /\ UNCHANGED via
    \/ \E s \in Snapshots(Users) : OnOnlineUsers(s, MaxOnline) /\ UNCHANGED via

SpecPresence == Init /\ [][NextPresence]_vars

\* Pagination: inbound events and the scroll handler.
NextPage ==
    \/ Deliver(OneUser, PageIds, PageLog, SideOnline)
    \/ \E scrollTop \in {0, 1} : HandleScroll(scrollTop)

SpecPage == Init /\ [][NextPage]_vars

\* The credential store under overlapping refreshToken calls.
SpecCred == Init /\ [][NextCred]_vars

(***************************************************************************)
(* The session of a room: the effect of Chat keyed on chatRoomId           *)
(* (fetchUserInfo, refreshInterval, cleanup), handleExit and the routes    *)
(* of App                                                                  *)
(***************************************************************************)
\* What a session step leaves in `note`.
Note(kind, run, to, open, tok) ==
    [kind |-> kind, run |-> run, to |-> to, open |-> open, tok |-> tok,
     at |-> now, stored |-> token, draft |-> <<>>, file |-> NoFile, sent |-> <<>>]

\* !newToken: null and undefined are falsy
Falsy(res) == res.kind \in {"none", "undefinedValue"}

\* The element App renders for a path: the guarded routes redirect on
\* isLoggedIn, and '/chat' (Login's target) matches no route.
Route(path, loggedIn) ==
    IF path = "/chat" THEN "blank"
    ELSE IF ~loggedIn THEN "login"
    ELSE IF path \in {"/login", "/chat-rooms"} THEN "rooms"
    ELSE "chat"

\* ChatRooms mounts with no token stored: its fetchChatRooms gets null from
\* refreshToken at once and calls onLogout() and navigate('/login').
Lands(path) ==
    IF Route(path, isLoggedIn) = "rooms" /\ ~HasToken(token) THEN "login"
    ELSE Route(path, isLoggedIn)

\* socketRef.current.disconnect() under `if (socketRef.current)`
Disconnected(s, ref) == IF ref = NoRun THEN s ELSE [s EXCEPT ![ref] = "closed"]

\* Faulty variant of Created: the channel is opened whatever refreshToken
\* returned.
CreatedAlways(res) == TRUE

\* fetchUserInfo goes on to create a channel only with a truthy newToken
Created(res) == res.kind = "jwt"

\* The runs of the effect once the component is unmounted.
Unmounted(st) == [r \in Runs |-> IF st[r] = "unused" THEN "unused" ELSE "gone"]

\* The run whose effect is in place.
HasLive == \E r \in Runs : status[r] = "live"

LiveRun == IF HasLive THEN CHOOSE r \in Runs : status[r] = "live" ELSE NoRun

\* The channel of the session in place is open.
SessionOpen == HasLive /\ sock[LiveRun] \in {"connecting", "connected"}

\* A session step's effect on the state of Chat: it applies no event.
Touch(kind, log, online, org) ==
    /\ messages' = log
    /\ onlineUsers' = online
    /\ origin' = org
    /\ lastEvent' = [kind |-> "session", arg |-> NoId]
    /\ prevMessages' = messages
    /\ prevOnline' = onlineUsers
    /\ UNCHANGED <<scenario, seeds, requests, pageNote>>

\* navigate(path), with `s` the channels as the caller left them.  Leaving
\* the chat route unmounts Chat: the cleanup of its effect runs and its
\* state is discarded.
Navigate(path, s) ==
    /\ view' = Lands(path)
    /\ isLoggedIn' = (isLoggedIn /\ Lands(path) # "login")
    /\ chatRoomId' = IF view = "chat" THEN "none" ELSE chatRoomId
    /\ sock' = IF view = "chat" THEN Disconnected(s, socketRef) ELSE s
    /\ timer' = IF view = "chat" THEN [r \in Runs |-> FALSE] ELSE timer
    /\ status' = IF view = "chat" THEN Unmounted(status) ELSE status
    /\ message' = IF view = "chat" THEN <<>> ELSE message
    /\ file' = IF view = "chat" THEN NoFile ELSE file
    /\ Touch("navigate",
             IF view = "chat" THEN <<>> ELSE messages,
             IF view = "chat" THEN <<>> ELSE onlineUsers,
             IF view = "chat" THEN <<>> ELSE origin)

\* A session step that navigates nowhere.
Stays(kind) ==
    /\ UNCHANGED <<view, isLoggedIn, chatRoomId, timer, status, message, file>>
    /\ Touch(kind, messages, onlineUsers, origin)

\* The route changes to /chat/:room (navigate of handleChatRoomClick or of
\* Message.handleUsernameClick): Chat mounts, or, when it is mounted, the
\* cleanup of the previous run is followed by the next run of the effect.
\* The body calls fetchUserInfo(), which runs to its first await inside
\* refreshToken, and sets the interval.
OpenChat(room) ==
    /\ isLoggedIn
    /\ view \in {"blank", "rooms", "chat"}
    /\ view = "chat" => room # chatRoomId
    /\ view = "chat" \/ sendPc = "idle"
    /\ pc["fetchUserInfo"] = "idle"
    /\ \A r \in Runs : entry[r] # "refresh"
    /\ \E n \in Runs :
          /\ status[n] = "unused"
          /\ \A r \in Runs : r < n => status[r] # "unused"
          /\ status' = [r \in Runs |->
                IF r = n THEN "live"
                ELSE IF status[r] = "live" THEN "torn" ELSE status[r]]
          /\ entry' = [entry EXCEPT ![n] = "refresh"]
          /\ entryRoom' = [entryRoom EXCEPT ![n] = room]
          /\ timer' = [r \in Runs |-> r = n]
          /\ note' = Note("enter", n, "none", FALSE, NoToken)
    /\ view' = "chat"
    /\ chatRoomId' = room
    /\ sock' = IF view = "chat" THEN Disconnected(sock, socketRef) ELSE sock
    /\ socketRef' = IF view = "chat" THEN socketRef ELSE NoRun
    /\ userInfo' = (view = "chat" /\ userInfo)
    /\ via' = NoRun
    /\ UNCHANGED <<isLoggedIn, denied, timerRun, auth, message, file, sendPc, sendData,
                   error, listing>>
    /\ CallRefreshToken("fetchUserInfo")

\* fetchUserInfo after `await refreshToken()`: navigate('/login') on a falsy
\* token and in the catch block, else the fetch of /users/me starts.
AfterRefresh(r) ==
    /\ entry[r] = "refresh"
    /\ pc["fetchUserInfo"] = "idle"
    /\ IF Created(result["fetchUserInfo"])
       THEN /\ entry' = [entry EXCEPT ![r] = "me"]
            /\ note' = Note("refreshed", r, "none", FALSE, NoToken)
            /\ UNCHANGED sock
            /\ Stays("refreshed")
       ELSE /\ entry' = [entry EXCEPT ![r] = "done"]
            /\ note' = Note("entryDenied", r, "/login", FALSE, NoToken)
            /\ Navigate("/login", sock)
    /\ denied' = [denied EXCEPT ![r] = result["fetchUserInfo"].kind # "jwt"]
    /\ via' = NoRun
    /\ UNCHANGED <<userInfo, entryRoom, timerRun, auth, socketRef, sendPc, sendData,
                   error, listing, credVars>>

\* The answer of GET /users/me: setUserInfo(data) on a 2xx answer, else (and
\* when the fetch rejects) navigate('/login').
MeDone(r, ok) ==
    /\ entry[r] = "me"
    /\ IF ok
       THEN /\ entry' = [entry EXCEPT ![r] = "room"]
            /\ userInfo' = (userInfo \/ status[r] # "gone")
            /\ note' = Note("me", r, "none", FALSE, NoToken)
            /\ UNCHANGED sock
            /\ Stays("me")
       ELSE /\ entry' = [entry EXCEPT ![r] = "done"]
            /\ note' = Note("navigate", r, "/login", FALSE, NoToken)
            /\ UNCHANGED userInfo
            /\ Navigate("/login", sock)
    /\ via' = NoRun
    /\ UNCHANGED <<entryRoom, denied, timerRun, auth, socketRef, sendPc, sendData,
                   error, listing, credVars>>

\* The answer of GET /chat-room/:id, whatever its status, and then
\* socketRef.current = io(url, {auth: {token: getItem('token'), ...}}) with
\* the handlers registered; navigate('/login') when the fetch rejects.
RoomDone(r, ok) ==
    /\ entry[r] = "room"
    /\ entry' = [entry EXCEPT ![r] = "done"]
    /\ IF ok
       THEN /\ sock' = [sock EXCEPT ![r] = "connecting"]
            /\ auth' = [auth EXCEPT ![r] = token]
            /\ socketRef' = IF status[r] = "gone" THEN socketRef ELSE r
            /\ note' = Note("io", r, "none", FALSE, token)
            /\ Stays("io")
       ELSE /\ note' = Note("navigate", r, "/login", FALSE, NoToken)
            /\ UNCHANGED <<auth, socketRef>>
            /\ Navigate("/login", sock)
    /\ via' = NoRun
    /\ UNCHANGED <<userInfo, entryRoom, denied, timerRun, sendPc, sendData, error, listing,
                   credVars>>

\* The transport completes a handshake, the first of the channel or one of
\* an automatic reconnect, with the auth object given to io().
Connect(r) ==
    /\ sock[r] = "connecting"
    /\ sock' = [sock EXCEPT ![r] = "connected"]
    /\ note' = Note("handshake", r, "none", FALSE, auth[r])
    /\ via' = NoRun
    /\ Stays("connect")
    /\ UNCHANGED <<userInfo, entry, entryRoom, denied, timerRun, auth, socketRef, sendPc,
                   sendData, error, listing, credVars>>

\* The transport loses the connection and starts to reconnect.
TransportLoss(r) ==
    /\ sock[r] = "connected"
    /\ sock' = [sock EXCEPT ![r] = "connecting"]
    /\ note' = Note("loss", r, "none", FALSE, NoToken)
    /\ via' = NoRun
    /\ Stays("disconnect")
    /\ UNCHANGED <<userInfo, entry, entryRoom, denied, timerRun, auth, socketRef, sendPc,
                   sendData, error, listing, credVars>>

\* An inbound event of the channel of run r: the handlers registered by its
\* fetchUserInfo call the state setters of its component, which do nothing
\* once the component is unmounted.
ChatEvent(r) ==
    /\ sock[r] = "connected"
    /\ status[r] # "gone"
    /\ via' = r
    /\ \E i \in RoomIds(entryRoom[r]) : OnChat([message |-> Msg(i)], SideLog)

SeedEvent(r) ==
    /\ sock[r] = "connected"
    /\ status[r] # "gone"
    /\ via' = r
    /\ \E s \in IncSeqs(RoomIds(entryRoom[r])) :
          OnInitialMessages(MapSeq(s, Msg), SideLog)

\* The interval of run r fires: its callback runs to the first await inside
\* refreshToken.
TimerFires(r) ==
    /\ timer[r]
    /\ timerRun = NoRun
    /\ pc["refreshInterval"] = "idle"
    /\ timerRun' = r
    /\ note' = Note("timer", r, "none", SessionOpen, NoToken)
    /\ via' = NoRun
    /\ UNCHANGED <<view, chatRoomId, isLoggedIn, userInfo, status, entry, entryRoom,
                   denied, timer, sock, auth, socketRef, message, file, sendPc, sendData,
                   error, listing>>
    /\ CallRefreshToken("refreshInterval")

\* The timer callback after `await refreshToken()`: navigate('/login') on a
\* falsy token.  A rejected refreshToken leaves the callback without effect.
TimerDone ==
    /\ timerRun # NoRun
    /\ pc["refreshInterval"] = "idle"
    /\ timerRun' = NoRun
    /\ IF Falsy(result["refreshInterval"])
       THEN /\ note' = Note("timerDenied", LiveRun, "/login", SessionOpen, NoToken)
            /\ Navigate("/login", sock)
       ELSE /\ note' = Note("renewed", timerRun, "none", FALSE, NoToken)
            /\ UNCHANGED sock
            /\ Stays("timer")
    /\ via' = NoRun
    /\ UNCHANGED <<userInfo, entry, entryRoom, denied, auth, socketRef, sendPc, sendData,
                   error, listing, credVars>>

\* handleExit: disconnect and navigate('/chat-rooms')
HandleExit ==
    /\ view = "chat"
    /\ note' = Note("exit", LiveRun, "/chat-rooms", SessionOpen, NoToken)
    /\ Navigate("/chat-rooms", Disconnected(sock, socketRef))
    /\ via' = NoRun
    /\ UNCHANGED <<userInfo, entry, entryRoom, denied, timerRun, auth, socketRef, sendPc,
                   sendData, error, listing, credVars>>

\* Login.handleSubmit: setItem, onLogin() and navigate('/chat')
HandleSubmit ==
    /\ view = "login"
    /\ isLoggedIn' = TRUE
    /\ view' = Route("/chat", TRUE)
    /\ note' = Note("login", NoRun, "/chat", FALSE, NoToken)
    /\ via' = NoRun
    /\ UNCHANGED <<chatRoomId, userInfo, status, entry, entryRoom, denied, timer, timerRun,
                   sock, auth, socketRef, message, file, sendPc, sendData, error,
                   listing>>
    /\ Login

(***************************************************************************)
(* sendMessage and the draft                                               *)
(***************************************************************************)
\* message.trim(): the draft without its leading and trailing blanks
RECURSIVE TrimStart(_)
TrimStart(s) == IF s # <<>> /\ Head(s) = Blank THEN TrimStart(Tail(s)) ELSE s

RECURSIVE TrimEnd(_)
TrimEnd(s) ==
    IF s # <<>> /\ s[Len(s)] = Blank THEN TrimEnd(SubSeq(s, 1, Len(s) - 1)) ELSE s

Trim(s) == TrimEnd(TrimStart(s))

\* Faulty variant of CanSend: the draft is not trimmed.
CanSendUntrimmed(text, f) == text # <<>> \/ f # NoFile

\* message.trim() || file
CanSend(text, f) == Trim(text) # <<>> \/ f # NoFile

\* file ? (file.type.startsWith('image/') ? 'image' : 'file') : 'text'
MessageType(f) ==
    IF f = NoFile THEN "text" ELSE IF f[1] = "image" THEN "image" ELSE "file"

\* messageData; the bytes of the file stand for file_name and file
MessageData(text, f) == [content |-> text, message_type |-> MessageType(f), file |-> f]

\* Faulty variant of AfterSend: the message is appended locally as well.
AfterSendAppending(log, data) == Append(log, [type |-> "chat", id |-> NoId])

\* The log after sendMessage: the function calls no setMessages.
AfterSend(log, data) == log

\* What a step of sendMessage leaves in `note`: the draft and the file it
\* was called with, the events it emitted, and whether the channel it
\* emitted on was connected and belonged to the session in place.
SendNote(kind, text, f, sent) ==
    [Note(kind, socketRef, "none",
          /\ socketRef # NoRun
          /\ sock[socketRef] = "connected"
          /\ status[socketRef] = "live", NoToken)
     EXCEPT !.draft = text, !.file = f, !.sent = sent]

SendFrame ==
    /\ via' = NoRun
    /\ UNCHANGED <<view, chatRoomId, isLoggedIn, userInfo, status, entry, entryRoom,
                   denied, timer, timerRun, sock, auth, socketRef, error, listing,
                   credVars>>

\* onChange of the text input: setMessage(event.target.value)
Type(text) ==
    /\ view = "chat"
    /\ message # text
    /\ message' = text
    /\ note' = Note("type", NoRun, "none", FALSE, NoToken)
    /\ Touch("type", messages, onlineUsers, origin)
    /\ UNCHANGED <<file, sendPc, sendData>>
    /\ SendFrame

\* handleFileChange: setFile(event.target.files[0])
HandleFileChange(f) ==
    /\ view = "chat"
    /\ file # f
    /\ file' = f
    /\ note' = Note("file", NoRun, "none", FALSE, NoToken)
    /\ Touch("file", messages, onlineUsers, origin)
    /\ UNCHANGED <<message, sendPc, sendData>>
    /\ SendFrame

\* socketRef.current.emit('chat', messageData); setMessage(''); setFile(null).
\* The call throws a TypeError when socketRef.current is null.
Emit(data, text, f) ==
    IF socketRef = NoRun
    THEN /\ note' = SendNote("threw", text, f, <<>>)
         /\ UNCHANGED <<message, file>>
         /\ Touch("send", messages, onlineUsers, origin)
    ELSE /\ note' = SendNote("emitted", text, f, <<[event |-> "chat", data |-> data]>>)
         /\ message' = <<>>
         /\ file' = NoFile
         /\ Touch("send", AfterSend(messages, data), onlineUsers, origin)

\* sendMessage up to `await file.arrayBuffer()`, or to its end when no file
\* is attached.  userInfo.email throws a TypeError while userInfo is null.
SendMessage ==
    /\ view = "chat"
    /\ sendPc = "idle"
    /\ IF ~CanSend(message, file)
       THEN /\ note' = SendNote("rejected", message, file, <<>>)
            /\ UNCHANGED <<message, file, sendPc, sendData>>
            /\ Touch("send", messages, onlineUsers, origin)
       ELSE IF ~userInfo
       THEN /\ note' = SendNote("threw", message, file, <<>>)
            /\ UNCHANGED <<message, file, sendPc, sendData>>
            /\ Touch("send", messages, onlineUsers, origin)
       ELSE IF file # NoFile
       THEN /\ sendPc' = "reading"
            /\ sendData' = MessageData(message, file)
            /\ note' = SendNote("reading", message, file, <<>>)
            /\ UNCHANGED <<message, file>>
            /\ Touch("send", messages, onlineUsers, origin)
       ELSE /\ UNCHANGED <<sendPc, sendData>>
            /\ Emit(MessageData(message, file), message, file)
    /\ SendFrame

\* sendMessage after `await file.arrayBuffer()`
SendResume ==
    /\ sendPc = "reading"
    /\ sendPc' = "idle"
    /\ sendData' = NoData
    /\ Emit(sendData, sendData.content, sendData.file)
    /\ SendFrame

\* The draft, the attached file and sendMessage over the session of a room.
NextSend ==
    \/ HandleSubmit
    \/ OpenChat("A")
    \/ \E r \in Runs : AfterRefresh(r)
    \/ \E r \in Runs : MeDone(r, TRUE)
    \/ \E r \in Runs : RoomDone(r, TRUE)
    \/ \E r \in Runs : Connect(r)
    \/ \E r \in Runs : TransportLoss(r)
    \/ \E r \in Runs : ChatEvent(r)
    \/ HandleExit
    \/ \E text \in Drafts : Type(text)
    \/ \E f \in FileTypes \cup {NoFile} : HandleFileChange(f)
    \/ SendMessage
    \/ SendResume

SpecSend == Init /\ [][NextSend]_vars

(***************************************************************************)
(* The listing calls of ChatRooms (fetchChatRooms, fetchOnlineUsers)       *)
(***************************************************************************)
\* Faulty variant of ErrorAfter: the failure is swallowed.
ErrorAfterSilent(before, outcome) == before

\* `throw new Error(...)` on a non-2xx answer and the catch block's
\* setError(...), which also catches a rejected fetch
ErrorAfter(before, outcome) == before \/ outcome \in {"status", "network"}

ListingFrame ==
    /\ via' = NoRun
    /\ UNCHANGED <<chatRoomId, userInfo, status, entry, entryRoom, denied, timer,
                   timerRun, sock, auth, socketRef, message, file, sendPc, sendData>>

\* The user opens /chat-rooms: ChatRooms mounts.
OpenRooms ==
    /\ view = "blank"
    /\ view' = Route("/chat-rooms", isLoggedIn)
    /\ error' = FALSE
    /\ note' = Note("rooms", NoRun, "/chat-rooms", FALSE, NoToken)
    /\ Touch("rooms", messages, onlineUsers, origin)
    /\ UNCHANGED <<isLoggedIn, listing, credVars>>
    /\ ListingFrame

\* fetchChatRooms() or fetchOnlineUsers() is called (by the effect of
\* ChatRooms or by its timer) and runs to its first await inside
\* refreshToken.
StartListing(c) ==
    /\ view = "rooms"
    /\ listing[c] = "idle"
    /\ pc[c] = "idle"
    /\ listing' = [listing EXCEPT ![c] = "refresh"]
    /\ note' = Note("listing", NoRun, "none", FALSE, NoToken)
    /\ UNCHANGED <<view, isLoggedIn, error>>
    /\ ListingFrame
    /\ CallRefreshToken(c)

\* The listing call after `await refreshToken()`: onLogout() and
\* navigate('/login') on a falsy token, setError in the catch block when
\* refreshToken rejected, else the fetch of the listing starts.  With
\* isLoggedIn false every route renders Login: a mounted Chat is unmounted.
ListingRefreshed(c) ==
    /\ listing[c] = "refresh"
    /\ pc[c] = "idle"
    /\ via' = NoRun
    /\ UNCHANGED <<userInfo, entry, entryRoom, denied, timerRun, auth, socketRef, sendPc,
                   sendData>>
    /\ IF Falsy(result[c])
       THEN /\ listing' = [listing EXCEPT ![c] = "idle"]
            /\ note' = Note("logout", NoRun, "/login", FALSE, NoToken)
            /\ UNCHANGED error
            /\ token' = NoToken
            /\ UNCHANGED <<now, nextSerial, pc, held, response, result, posts, attempt,
                           cleared401>>
            /\ Step("logout", "none", "none")
            /\ isLoggedIn' = FALSE
            /\ view' = Route("/login", FALSE)
            /\ chatRoomId' = IF view = "chat" THEN "none" ELSE chatRoomId
            /\ sock' = IF view = "chat" THEN Disconnected(sock, socketRef) ELSE sock
            /\ timer' = IF view = "chat" THEN [r \in Runs |-> FALSE] ELSE timer
            /\ status' = IF view = "chat" THEN Unmounted(status) ELSE status
            /\ message' = IF view = "chat" THEN <<>> ELSE message
            /\ file' = IF view = "chat" THEN NoFile ELSE file
            /\ Touch("logout",
                     IF view = "chat" THEN <<>> ELSE messages,
                     IF view = "chat" THEN <<>> ELSE onlineUsers,
                     IF view = "chat" THEN <<>> ELSE origin)
       ELSE /\ listing' = [listing EXCEPT ![c] = IF result[c] = Threw THEN "idle" ELSE "fetch"]
            /\ error' = (error \/ (result[c] = Threw /\ view = "rooms"))
            /\ note' = Note("refreshed", NoRun, "none", FALSE, NoToken)
            /\ UNCHANGED <<view, isLoggedIn, chatRoomId, status, timer, sock, message, file,
                           credVars>>
            /\ Touch("listing", messages, onlineUsers, origin)

\* The listing fetch settles: a 2xx answer, a non-2xx answer or a rejected
\* fetch.  The state setters do nothing once ChatRooms is unmounted.
ListingDone(c, outcome) ==
    /\ listing[c] = "fetch"
    /\ outcome \in {"ok", "status", "network"}
    /\ listing' = [listing EXCEPT ![c] = "idle"]
    /\ error' = IF view = "rooms" THEN ErrorAfter(error, outcome) ELSE error
    /\ note' = Note(IF outcome = "ok" THEN "listed" ELSE "listingFailed",
                    NoRun, "none", error, token)
    /\ UNCHANGED <<view, isLoggedIn, credVars>>
    /\ Touch("listing", messages, onlineUsers, origin)
    /\ ListingFrame

\* The room list view with its listing calls and the credential expiring.
NextRooms ==
    \/ HandleSubmit
    \/ OpenRooms
    \/ \E c \in Callers : StartListing(c)
    \/ \E c \in Callers : ListingRefreshed(c)
    \/ \E c \in Callers : \E outcome \in {"ok", "status", "network"} : ListingDone(c, outcome)
    \/ \E c \in Callers : FetchOk(c, "token") /\ Apart
    \/ \E c \in Callers : FetchFailed(c, "status") /\ Apart
    \/ \E c \in Callers : JsonDone(c) /\ Apart
    \/ Tick /\ Apart

SpecRooms == Init /\ [][NextRooms]_vars

\* The sessions of the rooms a user walks through, the credential valid.
NextSession ==
    \/ HandleSubmit
    \/ \E room \in Rooms : OpenChat(room)
    \/ \E r \in Runs : AfterRefresh(r)
    \/ \E r \in Runs : \E ok \in BOOLEAN : MeDone(r, ok)
    \/ \E r \in Runs : \E ok \in BOOLEAN : RoomDone(r, ok)
    \/ \E r \in Runs : Connect(r)
    \/ \E r \in Runs : TransportLoss(r)
    \/ \E r \in Runs : ChatEvent(r)
    \/ \E r \in Runs : SeedEvent(r)
    \/ HandleExit

SpecSession == Init /\ [][NextSession]_vars

\* The sessions with the credential expiring under them and the server
\* refusing to renew it.
NextExpiry ==
    \/ HandleSubmit
    \/ \E room \in Rooms : OpenChat(room)
    \/ \E r \in Runs : AfterRefresh(r)
    \/ \E r \in Runs : MeDone(r, TRUE)
    \/ \E r \in Runs : RoomDone(r, TRUE)
    \/ \E r \in Runs : Connect(r)
    \/ \E r \in Runs : ChatEvent(r)
    \/ \E r \in Runs : TimerFires(r)
    \/ TimerDone
    \/ \E c \in SessionCallers : FetchFailed(c, "status") /\ Apart
    \/ Tick /\ HasToken(token) /\ Apart

SpecExpiry == Init /\ [][NextExpiry]_vars

\* The channel of one room reconnecting while the credential is renewed.
NextReconnect ==
    \/ HandleSubmit
    \/ OpenChat("A")
    \/ \E r \in Runs : AfterRefresh(r)
    \/ \E r \in Runs : MeDone(r, TRUE)
    \/ \E r \in Runs : RoomDone(r, TRUE)
    \/ \E r \in Runs : Connect(r)
    \/ \E r \in Runs : TransportLoss(r)
    \/ \E r \in Runs : ChatEvent(r)
    \/ \E r \in Runs : SeedEvent(r)
    \/ \E r \in Runs : TimerFires(r)
    \/ TimerDone
    \/ \E c \in SessionCallers : FetchOk(c, "token") /\ Apart
    \/ \E c \in SessionCallers : FetchFailed(c, "status") /\ Apart
    \/ \E c \in SessionCallers : JsonDone(c) /\ Apart
    \/ Tick /\ Apart

SpecReconnect == Init /\ [][NextReconnect]_vars

\* Events of the channel of run r that lack the field their handler reads.
MalformedChat(r) ==
    /\ sock[r] = "connected"
    /\ status[r] # "gone"
    /\ via' = r
    /\ OnChat([message |-> NoMessage], SideLog)

MalformedJoin(r) ==
    /\ sock[r] = "connected"
    /\ status[r] # "gone"
    /\ via' = r
    /\ OnJoin([username |-> NoUsername], SideLog, SideOnline)

MalformedLeave(r) ==
    /\ sock[r] = "connected"
    /\ status[r] # "gone"
    /\ via' = r
    /\ OnLeave([username |-> NoUsername])

\* The session of one room whose channel also delivers malformed events.
NextMalformed ==
    \/ HandleSubmit
    \/ OpenChat("A")
    \/ \E r \in Runs : AfterRefresh(r)
    \/ \E r \in Runs : MeDone(r, TRUE)
    \/ \E r \in Runs : RoomDone(r, TRUE)
    \/ \E r \in Runs : Connect(r)
    \/ \E r \in Runs : ChatEvent(r)
    \/ \E r \in Runs : SeedEvent(r)
    \/ \E r \in Runs : MalformedChat(r)
    \/ \E r \in Runs : MalformedJoin(r)
    \/ \E r \in Runs : MalformedLeave(r)
    \/ HandleExit

SpecMalformed == Init /\ [][NextMalformed]_vars

\* The callers of refreshToken that the forced logout is followed through:
\* the start-up and the timer of Chat, and the room listing of ChatRooms.
LogoutCallers == SessionCallers \cup {"fetchChatRooms"}

\* No continuation of an `await refreshToken()` that already settled is
\* waiting: such a continuation is a microtask, which runs before the next
\* task (a user's step, a timer, an answer of the network).
Drained ==
    /\ \A r \in Runs : ~(entry[r] = "refresh" /\ pc["fetchUserInfo"] = "idle")
    /\ ~(timerRun # NoRun /\ pc["refreshInterval"] = "idle")
    /\ \A c \in Callers : ~(listing[c] = "refresh" /\ pc[c] = "idle")

\* The consumers of refreshToken with the credential expiring and the server
\* answering the renewal with a refusal or with a body without access_token.
NextLogout ==
    \/ Drained /\ HandleSubmit
    \/ Drained /\ OpenRooms
    \/ Drained /\ OpenChat("A")
    \/ \E r \in Runs : AfterRefresh(r)
    \/ \E r \in Runs : Drained /\ MeDone(r, TRUE)
    \/ \E r \in Runs : Drained /\ RoomDone(r, TRUE)
    \/ \E r \in Runs : Drained /\ TimerFires(r)
    \/ TimerDone
    \/ Drained /\ StartListing("fetchChatRooms")
    \/ ListingRefreshed("fetchChatRooms")
    \/ Drained /\ ListingDone("fetchChatRooms", "ok")
    \/ \E c \in LogoutCallers : Drained /\ FetchOk(c, "noAccessToken") /\ Apart
    \/ \E c \in LogoutCallers : Drained /\ FetchFailed(c, "status") /\ Apart
    \/ \E c \in LogoutCallers : Drained /\ JsonDone(c) /\ Apart
    \/ Drained /\ Tick /\ HasToken(token) /\ Apart

\* What runs without the user: a fetch settles, the continuation of an await
\* runs, an interval fires.  The user's own steps and the passing of time
\* are not forced.
FairLogout ==
    /\ \A c \in LogoutCallers :
          /\ WF_vars(Drained /\ (FetchOk(c, "noAccessToken") \/ FetchFailed(c, "status"))
                        /\ Apart)
          /\ WF_vars(Drained /\ JsonDone(c) /\ Apart)
    /\ \A r \in Runs :
          /\ WF_vars(AfterRefresh(r))
          /\ WF_vars(Drained /\ MeDone(r, TRUE))
          /\ WF_vars(Drained /\ RoomDone(r, TRUE))
          /\ WF_vars(Drained /\ TimerFires(r))
    /\ WF_vars(TimerDone)
    /\ WF_vars(Drained /\ StartListing("fetchChatRooms"))
    /\ WF_vars(ListingRefreshed("fetchChatRooms"))
    /\ WF_vars(Drained /\ ListingDone("fetchChatRooms", "ok"))

SpecLogout == Init /\ [][NextLogout]_vars /\ FairLogout

(***************************************************************************)
(* Properties of the message log (checked under Spec)                      *)
(***************************************************************************)
IdsOf(log) == {log[i].id : i \in DOMAIN log} \ {NoId}

\* The entries a payload of ids becomes in the log.
ChatEntries(ids) == [i \in DOMAIN ids |-> [type |-> "chat", id |-> ids[i]]]

\* C1: no two entries of the message log carry the same non-null id,
\* whatever events were applied, redelivered ones included.
C1_NoDuplicateIds ==
    \A i, j \in DOMAIN messages :
        (i < j /\ messages[i].id # NoId) => messages[i].id # messages[j].id

\* C2: a 'chat' event whose message id is already in the log leaves the log
\* unchanged, so applying the same 'chat' event twice equals applying it once.
C2_AppendLiveIdempotent ==
    (lastEvent.kind = "chat" /\ lastEvent.arg \in IdsOf(prevMessages))
        => messages = prevMessages

\* C3: a 'more_messages' page is put at the head of the log in its own order
\* without the entries whose id the log already holds, so applying the same
\* page twice equals applying it once.
C3_PrependOlderSkipsPresent ==
    lastEvent.kind = "more_messages"
        => messages =
              SelectSeq(ChatEntries(lastEvent.arg),
                        LAMBDA e : e.id \notin IdsOf(prevMessages))
                  \o prevMessages

\* C4: every entry that came with a seed or a page stands before every entry
\* appended live after it, the entries of one seed or page keep their order,
\* and every entry is the one its event inserted.
C4_SnapshotsBeforeLaterLive ==
    /\ Len(origin) = Len(messages)
    /\ \A i \in DOMAIN origin : messages[i].id = origin[i].id
    /\ \A i, j \in DOMAIN origin :
          /\ (/\ origin[i].src \in {"seed", "page"}
              /\ origin[j].src = "live"
              /\ origin[j].ev > origin[i].ev) => i < j
          /\ (origin[i].ev = origin[j].ev /\ origin[i].idx < origin[j].idx) => i < j

\* A full log holding a page that arrived after a live entry, a seeded entry
\* and the live entry appended after the seed.
C4_Witness ==
    /\ Len(origin) = MaxLog
    /\ \E i, j, k \in DOMAIN origin :
          /\ origin[i].src = "page" /\ origin[j].src = "seed" /\ origin[k].src = "live"
          /\ origin[j].ev < origin[k].ev /\ origin[k].ev < origin[i].ev
          /\ i < j /\ j < k

\* C5: right after an 'initial_messages' event the log is exactly the
\* snapshot, whatever it held before, a second seed included.
C5_SeedReplaces ==
    lastEvent.kind = "initial_messages" => messages = ChatEntries(lastEvent.arg)

\* A second seed applied to a log holding a join notice and chat entries
\* that the snapshot does not hold.
C5_Witness ==
    /\ lastEvent.kind = "initial_messages"
    /\ seeds = 2
    /\ lastEvent.arg # <<>>
    /\ \E i \in DOMAIN prevMessages : prevMessages[i].type = "join"
    /\ IdsOf(prevMessages) \ Range(lastEvent.arg) # {}
    /\ messages = ChatEntries(lastEvent.arg)

(***************************************************************************)
(* Properties of the presence list (checked under SpecPresence)            *)
(***************************************************************************)
\* C6: the presence list holds no identity more than once.
C6_NoDuplicateIdentities ==
    \A i, j \in DOMAIN onlineUsers : i < j => onlineUsers[i] # onlineUsers[j]

\* C7: a 'join' of an identity already listed and a 'leave' of an identity
\* not listed leave the presence list unchanged; a join adds an absent
\* identity and a leave removes a present one.
C7_DeltasIdempotent ==
    /\ (lastEvent.kind = "join" /\ lastEvent.arg \in Range(prevOnline))
          => onlineUsers = prevOnline
    /\ (lastEvent.kind = "join" /\ lastEvent.arg \notin Range(prevOnline))
          => Range(onlineUsers) = Range(prevOnline) \cup {lastEvent.arg}
    /\ (lastEvent.kind = "leave" /\ lastEvent.arg \notin Range(prevOnline))
          => onlineUsers = prevOnline
    /\ (lastEvent.kind = "leave" /\ lastEvent.arg \in Range(prevOnline))
          => Range(onlineUsers) = Range(prevOnline) \ {lastEvent.arg}

\* C8: after replace([a,b,c]), join d, leave b the presence list is the set
\* {a,c,d}, each identity once, whatever it held before.
C8_PresenceConvergence ==
    scenario = 3
        => /\ Range(onlineUsers) = {"a", "c", "d"}
           /\ Len(onlineUsers) = 3

\* The scenario completed: the leave of b was applied to [a,b,c,d].
C8_Witness ==
    /\ scenario = 3
    /\ lastEvent = [kind |-> "leave", arg |-> "b"]
    /\ prevOnline = <<"a", "b", "c", "d">>

\* C9: right after an 'online_users' event the presence list is exactly the
\* snapshot, whatever deltas were applied before it.
C9_ReplaceOverwrites ==
    lastEvent.kind = "online_users" => onlineUsers = lastEvent.arg

\* A snapshot applied to a list that joins had grown (an identity twice) and
\* that held an identity the snapshot does not list.
C9_Witness ==
    /\ lastEvent.kind = "online_users"
    /\ lastEvent.arg # <<>>
    /\ \E i, j \in DOMAIN prevOnline : i < j /\ prevOnline[i] = prevOnline[j]
    /\ Range(prevOnline) \ Range(lastEvent.arg) # {}
    /\ onlineUsers = lastEvent.arg


(***************************************************************************)
(* Properties of credential renewal (checked under SpecCred)               *)
(***************************************************************************)
\* C10: overlapping refreshToken calls on one expired credential issue
\* exactly one POST /refresh-token for it.
C10_OneRenewalPerCredential ==
    \A s \in DOMAIN posts : posts[s] <= 1

\* C11: callers that raced on one expired credential all get the result of
\* one renewal, and a racer's failure never clears the credential that a
\* renewal of the same old credential has stored.
C11_RacersShareOneResult ==
    /\ \A c, d \in Callers :
          (/\ c # d
           /\ attempt[c] # 0 /\ attempt[c] = attempt[d]
           /\ pc[c] = "idle" /\ pc[d] = "idle") => result[c] = result[d]
    /\ (/\ lastStep.op = "fetchFailed"
        /\ prevToken.kind = "jwt"
        /\ \E d \in Callers :
              /\ d # lastStep.c
              /\ attempt[d] = attempt[lastStep.c]
              /\ result[d] = prevToken) => token = prevToken

\* C12: a renewal answered with a non-success status, or failing with a
\* network error, clears the stored credential and returns null.
C12_FailureClearsStore ==
    lastStep.op = "fetchFailed"
        => /\ token = NoToken
           /\ result[lastStep.c] = NoToken
           /\ pc[lastStep.c] = "idle"

\* A network error on the renewal of the stored, expired credential.
C12_Witness ==
    /\ lastStep.op = "fetchFailed"
    /\ lastStep.info = "network"
    /\ prevToken.kind = "jwt"
    /\ prevToken.serial = attempt[lastStep.c]
    /\ prevToken.exp < now
    /\ token = NoToken

\* C13: a renewal answered with a success status and a malformed payload
\* (unparseable, or without access_token) clears the stored credential and
\* returns a falsy value; no credential value is left in the store.
C13_MalformedClearsStore ==
    (lastStep.op = "jsonDone" /\ lastStep.info \in {"noAccessToken", "notJson"})
        => /\ token = NoToken
           /\ result[lastStep.c] \in {NoToken, UndefinedValue}

\* C14: a successful renewal stores the new credential and returns that same
\* credential: right after the call the store holds the returned value.
C14_SuccessStoresReturned ==
    (lastStep.op = "jsonDone" /\ lastStep.info = "token")
        => /\ token.kind = "jwt"
           /\ token = result[lastStep.c]
           /\ token.serial # attempt[lastStep.c]
           /\ pc[lastStep.c] = "idle"

\* The expired credential still stored when its renewal succeeds.
C14_Witness ==
    /\ lastStep.op = "jsonDone"
    /\ lastStep.info = "token"
    /\ prevToken.kind = "jwt"
    /\ prevToken.serial = attempt[lastStep.c]
    /\ prevToken.exp < now
    /\ token = result[lastStep.c]
    /\ token.serial > prevToken.serial

\* C15: a call returns the stored credential unchanged, with no network
\* call, exactly when its expiry instant is later than the current instant.
C15_FastPathIffFuture ==
    (lastStep.op = "call" /\ token.kind = "jwt" /\ prevToken = token)
        => ((/\ pc[lastStep.c] = "idle"
             /\ result[lastStep.c] = token
             /\ ~lastStep.posted) <=> token.exp > now)

\* C16: with no credential stored a call returns null, sends nothing and
\* leaves the store empty.
C16_NoTokenNoCall ==
    (lastStep.op = "call" /\ prevToken = NoToken)
        => /\ result[lastStep.c] = NoToken
           /\ ~lastStep.posted
           /\ pc[lastStep.c] = "idle"
           /\ token = NoToken

\* A call made after a failed renewal had emptied the store.
C16_Witness ==
    /\ lastStep.op = "call"
    /\ prevToken = NoToken
    /\ token = NoToken
    /\ result[lastStep.c] = NoToken
    /\ cleared401

\* C17: once a 401 has cleared the store, the store stays empty and every
\* call returns null without a network call until a login stores a token.
C17_ClearedUntilLogin ==
    cleared401
        => /\ token = NoToken
           /\ lastStep.op = "call"
                 => (result[lastStep.c] = NoToken /\ ~lastStep.posted)

(***************************************************************************)
(* Properties of pagination (checked under SpecPage)                       *)
(***************************************************************************)
\* C18: at most one 'get_more_messages' request awaits its answer: a second
\* scroll to the top before the answer emits nothing.
C18_OneOutstandingRequest == Len(requests) <= 1

\* C19: a 'more_messages' page changes the log only if it answers a request
\* awaiting an answer whose cursor is still the oldest entry of the log.
C19_StalePageIgnored ==
    (lastEvent.kind = "more_messages" /\ messages # prevMessages)
        => /\ pageNote.flag
           /\ prevMessages # <<>>
           /\ pageNote.cursor = prevMessages[1].id

\* C20: a scroll while the log is empty emits nothing and changes nothing.
C20_ScrollOnEmptyLog ==
    (lastEvent.kind = "scroll" /\ prevMessages = <<>>)
        => /\ ~pageNote.flag
           /\ messages = <<>>
           /\ onlineUsers = prevOnline

\* A scroll to the top of a log that a seed had emptied while a request was
\* awaiting its answer.
C20_Witness ==
    /\ lastEvent = [kind |-> "scroll", arg |-> 0]
    /\ prevMessages = <<>>
    /\ messages = <<>>
    /\ seeds > 0
    /\ requests # <<>>
    /\ ~pageNote.flag

(***************************************************************************)
(* Properties of room entry and of the credential check of a session       *)
(* (checked under SpecExpiry)                                              *)
(***************************************************************************)
\* C24: when refreshToken gives fetchUserInfo no credential, the entry
\* navigates to /login, creates no channel and issues no handshake, and the
\* chat view is left.
C24_DeniedEntryOpensNothing ==
    /\ \A r \in Runs :
          denied[r] => /\ sock[r] = "none"
                       /\ auth[r] = NoToken
                       /\ entry[r] = "done"
    /\ note.kind = "entryDenied" => (note.to = "/login" /\ view # "chat")

\* The entry into a room with an expired credential whose renewal the server
\* refused: the user is sent to the login view.
C24_Witness ==
    /\ note.kind = "entryDenied"
    /\ denied[note.run]
    /\ attempt["fetchUserInfo"] # 0
    /\ result["fetchUserInfo"] = NoToken
    /\ sock[note.run] = "none"
    /\ view = "login"

\* C25: when the timer's credential check gets no credential while the
\* channel of the session is open, that channel is disconnected, the timer
\* is cleared, the user is sent to /login, and no event is applied after it.
C25_DeniedCheckClosesSession ==
    (note.kind = "timerDenied" /\ note.open)
        => /\ sock[note.run] = "closed"
           /\ \A r \in Runs : ~timer[r]
           /\ note.to = "/login"
           /\ view # "chat"
           /\ via = NoRun

(***************************************************************************)
(* Properties of the sessions of successive rooms (checked under           *)
(* SpecSession)                                                            *)
(***************************************************************************)
\* C26: once the cleanup of a session has run (room exit, room change or
\* unmount, at any point of its entry sequence), its timer is cleared, its
\* channel is not and does not become connected, and no event of its
\* channel is applied.
C26_TornSessionIsSilent ==
    /\ \A r \in Runs :
          status[r] \in {"torn", "gone"}
              => (~timer[r] /\ sock[r] \notin {"connecting", "connected"})
    /\ via # NoRun => status[via] = "live"

\* C27: at no moment do two connected channels feed the log and the
\* presence list of the mounted component.
C27_OneLiveChannel ==
    Cardinality({r \in Runs : sock[r] = "connected" /\ status[r] # "gone"}) <= 1

\* C28: the log shown for the active room holds no entry of another room.
C28_NoCrossRoomEntries ==
    view = "chat"
        => \A i \in DOMAIN messages :
              messages[i].id # NoId => messages[i].id \in RoomIds(chatRoomId)

(***************************************************************************)
(* Properties of the handshakes of a channel (checked under SpecReconnect) *)
(***************************************************************************)
\* C29: a handshake never presents a credential past its expiry instant
\* for which no renewal was attempted, and never a credential that the
\* store has replaced by a renewed one.
C29_HandshakeCredentialFresh ==
    (note.kind = "handshake" /\ note.tok.kind = "jwt")
        => /\ note.tok.exp < note.at => posts[note.tok.serial] > 0
           /\ note.stored.kind = "jwt" => note.tok.serial = note.stored.serial

(***************************************************************************)
(* Properties of sendMessage (checked under SpecSend)                      *)
(***************************************************************************)
SendKinds == {"rejected", "threw", "reading", "emitted"}

\* C21: sendMessage called with a draft that is empty or all blanks and
\* with no file attached emits nothing and leaves the draft, the file and
\* the log as they were.
C21_EmptySendRejected ==
    (note.kind \in SendKinds /\ Trim(note.draft) = <<>> /\ note.file = NoFile)
        => /\ note.kind = "rejected"
           /\ note.sent = <<>>
           /\ message = note.draft
           /\ file = NoFile
           /\ sendPc = "idle"
           /\ lastEvent.kind = "session" => messages = prevMessages

\* A draft of one blank sent over a connected channel with a log that is
\* not empty.
C21_Witness ==
    /\ note.kind = "rejected"
    /\ note.draft = <<Blank>>
    /\ note.open
    /\ message = <<Blank>>
    /\ messages # <<>>
    /\ lastEvent.kind = "session"

\* C22: sendMessage emits nothing unless the channel of the session in
\* place is connected.
C22_NoEmitUnlessActive ==
    note.kind = "emitted" => note.open

\* C23: sendMessage leaves the log as it was; an accepted send emits one
\* 'chat' event carrying the draft and clears the draft and the file.
C23_SendLeavesLog ==
    /\ (note.kind \in SendKinds /\ lastEvent.kind = "session")
          => messages = prevMessages
    /\ note.kind = "emitted"
          => /\ Len(note.sent) = 1
             /\ note.sent[1].event = "chat"
             /\ note.sent[1].data.content = note.draft
             /\ message = <<>>
             /\ file = NoFile

\* A draft with a file attached emitted, after the file was read, on the
\* connected channel of a session whose log holds the echo of an earlier
\* message.
C23_Witness ==
    /\ note.kind = "emitted"
    /\ note.file # NoFile
    /\ Trim(note.draft) # <<>>
    /\ note.open
    /\ lastEvent.kind = "session"
    /\ messages # <<>>
    /\ messages = prevMessages

(***************************************************************************)
(* Properties of the listing calls (checked under SpecRooms)               *)
(***************************************************************************)
\* C30: a listing call of the mounted room list that fails with a
\* credential at hand sets the error indicator and neither clears the
\* stored credential nor logs out nor navigates.
C30_ListingFailureIsLocal ==
    (note.kind = "listingFailed" /\ view = "rooms")
        => /\ error
           /\ note.tok = note.stored
           /\ isLoggedIn
           /\ note.to = "none"

\* The first failure of a listing call made with a renewed credential.
C30_Witness ==
    /\ note.kind = "listingFailed"
    /\ ~note.open
    /\ error
    /\ note.stored.kind = "jwt"
    /\ note.stored.serial > 1
    /\ view = "rooms"

(***************************************************************************)
(* Properties of the pagination cursor (checked under SpecPage)            *)
(***************************************************************************)
\* The id of the oldest entry of a log that is a message, NoId when the log
\* holds no message.
OldestRealId(log) ==
    LET real == {i \in DOMAIN log : log[i].id # NoId}
    IN  IF real = {} THEN NoId
        ELSE log[CHOOSE i \in real : \A j \in real : i <= j].id

\* C32: every 'get_more_messages' request the scroll handler emits carries
\* as cursor the id of the oldest message of the log, never an undefined
\* one, also when the head of the log is a join notice.
C32_CursorIsRealId ==
    (lastEvent.kind = "scroll" /\ pageNote.flag)
        => /\ pageNote.cursor # NoId
           /\ pageNote.cursor = OldestRealId(prevMessages)

(***************************************************************************)
(* Properties of malformed inbound events (checked under SpecMalformed)    *)
(***************************************************************************)
\* The event applied last lacked the field its handler reads.
LastMalformed ==
    \/ lastEvent = [kind |-> "chat", arg |-> NoId]
    \/ lastEvent = [kind |-> "join", arg |-> NoUsername]
    \/ lastEvent = [kind |-> "leave", arg |-> NoUsername]

\* C31: a malformed inbound event is dropped: it changes neither the log nor
\* the presence list, and the channel that delivered it stays open.
C31_MalformedDropped ==
    LastMalformed
        => /\ messages = prevMessages
           /\ onlineUsers = prevOnline
           /\ via # NoRun
           /\ sock[via] = "connected"

(***************************************************************************)
(* Properties of the forced logout (checked under SpecLogout)              *)
(***************************************************************************)
\* A consumer was handed a falsy result by refreshToken: fetchUserInfo, the
\* timer of Chat, or a listing call of ChatRooms.
ReportedUnauthenticated ==
    \/ note.kind = "entryDenied" /\ Falsy(result["fetchUserInfo"])
    \/ note.kind = "timerDenied"
    \/ note.kind = "logout"

\* The store is empty, App holds isLoggedIn = false and shows Login.
LoggedOut == token = NoToken /\ ~isLoggedIn /\ view = "login"

\* C33: whenever refreshToken reports Unauthenticated to a consumer, the
\* application eventually reaches the logged-out state.
C33_DenialLeadsToLogout == ReportedUnauthenticated ~> LoggedOut

(***************************************************************************)
(* Properties of refreshToken on an undecodable store (checked under       *)
(* SpecCred)                                                               *)
(***************************************************************************)
\* C34: a call of refreshToken that finds in the store a value that cannot
\* be decoded returns Unauthenticated (null) and leaves the store empty: it
\* never rejects and never leaves the value where it found it.
C34_UndecodableYieldsUnauthenticated ==
    (lastStep.op = "call" /\ prevToken.kind = "undefined")
        => /\ result[lastStep.c] = NoToken
           /\ pc[lastStep.c] = "idle"
           /\ token = NoToken

====
